---- MODULE Spec2Model ----
(***************************************************************************)
(* Call-site introspection engine of sorcery/core.py: the per-file syntax  *)
(* index (FileInfo), the memoised resolvers (_attr_call_at,                *)
(* _calls_in_stmt_at_line, _plain_call_at), the parent-link derivations    *)
(* (stmt_containing_node, nearest_assigned_names), the layered name        *)
(* lookup (_resolve_var) and the Spell descriptor (__get__, __call__,      *)
(* no_spells).                                                             *)
(***************************************************************************)
EXTENDS Integers, Sequences, FiniteSets, TLC

VARIABLES
    fileCache,    \* lru cache of file_info: <<[key |-> path, val |-> instance]>>, most recent first
    nextInst,     \* number of FileInfo objects built so far + 1 (each build reads and parses the file)
    attrCache,    \* lru cache of FileInfo._attr_call_at, keyed <<instance, line, name>>
    callsCache,   \* lru cache of FileInfo._calls_in_stmt_at_line, keyed <<instance, lineno>>
    stmtCache,    \* lru cache of stmt_containing_node, keyed by node
    namesCache,   \* lru cache of nearest_assigned_names, keyed by node
    excluded,     \* Spell.excluded: set of code objects
    env,          \* the binding layers of the frame under inspection (locals, globals, builtins)
    ret,          \* outcome of the last operation
    funcRuns,     \* how many times a spell's business function has run
    firstInst,    \* history: path -> the instance its first load built (0: never loaded)
    resolved      \* history: the attribute resolutions that returned, as [key, out]

vars == <<fileCache, nextInst, attrCache, callsCache, stmtCache, namesCache,
          excluded, env, ret, funcRuns, firstInst, resolved>>

(***************************************************************************)
(* Bounds of the exploration.                                              *)
(***************************************************************************)
MaxStack == 2       \* deepest caller chain handed to Spell.__get__
MaxRuns == 2        \* business-function executions explored
NumFiller == 129    \* further lines of a.py, each the bare reference `obj.f`
NumColdPaths == 129 \* further source files, each loaded for the first time in turn

(***************************************************************************)
(* functools.lru_cache() is applied without arguments everywhere in        *)
(* core.py, so every cache holds at most the default maxsize of entries    *)
(* and drops the least recently used one when a new key arrives.           *)
(***************************************************************************)
LruMaxSize == 128

(***************************************************************************)
(* Syntax trees.  A node is a record; ids are positions in the table.      *)
(* lineno 0 stands for "no lineno attribute" (Module, comprehension).      *)
(* children is ast.iter_child_nodes order; expr_context and operator       *)
(* nodes (Load, Store, Add) are left out: they carry no lineno, are never  *)
(* a Call, a statement or a target, and have no children.                  *)
(***************************************************************************)
N(kind, lineno, name, children, func, targets, target, elts) ==
    [kind |-> kind, lineno |-> lineno, name |-> name, children |-> children,
     func |-> func, targets |-> targets, target |-> target, elts |-> elts]

(* a.py, lines 1..18:
     1  x = obj.f()
     2  a, b = obj.f(), obj.f()
     3  self.value = f()
     4  for k in f():
     5      g()
     6  obj.f
     7  ys = [h(i) for i in f()]
     8  print(obj.f())
     9  for j in xs:
    10      obj.f()
    11  p = q = f()
    12  a, (b, c) = f()
    13  f(); f()
    14  obj.f(obj.f(), obj.f())
    15  [a, b] = f()
    16  x += f()
    17  y = obj.g(obj.f())
    18  z = f(f())
   as ast.parse builds it (node ids in ast.walk order). *)
TreeACore == <<
  N("Module", 0, "", <<2, 3, 4, 5, 6, 7, 8, 9, 10, 11, 12, 13, 14, 15, 16, 17, 18>>, 0, <<>>, 0, <<>>),  \* 1: 
  N("Assign", 1, "", <<19, 20>>, 0, <<19>>, 0, <<>>),  \* 2: x = obj.f()
  N("Assign", 2, "", <<21, 22>>, 0, <<21>>, 0, <<>>),  \* 3: a, b = obj.f(), obj.f()
  N("Assign", 3, "", <<23, 24>>, 0, <<23>>, 0, <<>>),  \* 4: self.value = f()
  N("For", 4, "", <<25, 26, 27>>, 0, <<>>, 25, <<>>),  \* 5: for k in f():
  N("Expr", 6, "", <<28>>, 0, <<>>, 0, <<>>),  \* 6: obj.f
  N("Assign", 7, "", <<29, 30>>, 0, <<29>>, 0, <<>>),  \* 7: ys = [h(i) for i in f()]
  N("Expr", 8, "", <<31>>, 0, <<>>, 0, <<>>),  \* 8: print(obj.f())
  N("For", 9, "", <<32, 33, 34>>, 0, <<>>, 32, <<>>),  \* 9: for j in xs:
  N("Assign", 11, "", <<35, 36, 37>>, 0, <<35, 36>>, 0, <<>>),  \* 10: p = q = f()
  N("Assign", 12, "", <<38, 39>>, 0, <<38>>, 0, <<>>),  \* 11: a, (b, c) = f()
  N("Expr", 13, "", <<40>>, 0, <<>>, 0, <<>>),  \* 12: f()
  N("Expr", 13, "", <<41>>, 0, <<>>, 0, <<>>),  \* 13: f()
  N("Expr", 14, "", <<42>>, 0, <<>>, 0, <<>>),  \* 14: obj.f(obj.f(), obj.f())
  N("Assign", 15, "", <<43, 44>>, 0, <<43>>, 0, <<>>),  \* 15: [a, b] = f()
  N("AugAssign", 16, "", <<45, 46>>, 0, <<>>, 45, <<>>),  \* 16: x += f()
  N("Assign", 17, "", <<47, 48>>, 0, <<47>>, 0, <<>>),  \* 17: y = obj.g(obj.f())
  N("Assign", 18, "", <<49, 50>>, 0, <<49>>, 0, <<>>),  \* 18: z = f(f())
  N("Name", 1, "x", <<>>, 0, <<>>, 0, <<>>),  \* 19: x
  N("Call", 1, "", <<51>>, 51, <<>>, 0, <<>>),  \* 20: obj.f()
  N("Tuple", 2, "", <<52, 53>>, 0, <<>>, 0, <<52, 53>>),  \* 21: a, b
  N("Tuple", 2, "", <<54, 55>>, 0, <<>>, 0, <<54, 55>>),  \* 22: obj.f(), obj.f()
  N("Attribute", 3, "value", <<56>>, 0, <<>>, 0, <<>>),  \* 23: self.value
  N("Call", 3, "", <<57>>, 57, <<>>, 0, <<>>),  \* 24: f()
  N("Name", 4, "k", <<>>, 0, <<>>, 0, <<>>),  \* 25: k
  N("Call", 4, "", <<58>>, 58, <<>>, 0, <<>>),  \* 26: f()
  N("Expr", 5, "", <<59>>, 0, <<>>, 0, <<>>),  \* 27: g()
  N("Attribute", 6, "f", <<60>>, 0, <<>>, 0, <<>>),  \* 28: obj.f
  N("Name", 7, "ys", <<>>, 0, <<>>, 0, <<>>),  \* 29: ys
  N("ListComp", 7, "", <<61, 62>>, 0, <<>>, 0, <<>>),  \* 30: [h(i) for i in f()]
  N("Call", 8, "", <<63, 64>>, 63, <<>>, 0, <<>>),  \* 31: print(obj.f())
  N("Name", 9, "j", <<>>, 0, <<>>, 0, <<>>),  \* 32: j
  N("Name", 9, "xs", <<>>, 0, <<>>, 0, <<>>),  \* 33: xs
  N("Expr", 10, "", <<65>>, 0, <<>>, 0, <<>>),  \* 34: obj.f()
  N("Name", 11, "p", <<>>, 0, <<>>, 0, <<>>),  \* 35: p
  N("Name", 11, "q", <<>>, 0, <<>>, 0, <<>>),  \* 36: q
  N("Call", 11, "", <<66>>, 66, <<>>, 0, <<>>),  \* 37: f()
  N("Tuple", 12, "", <<67, 68>>, 0, <<>>, 0, <<67, 68>>),  \* 38: a, (b, c)
  N("Call", 12, "", <<69>>, 69, <<>>, 0, <<>>),  \* 39: f()
  N("Call", 13, "", <<70>>, 70, <<>>, 0, <<>>),  \* 40: f()
  N("Call", 13, "", <<71>>, 71, <<>>, 0, <<>>),  \* 41: f()
  N("Call", 14, "", <<72, 73, 74>>, 72, <<>>, 0, <<>>),  \* 42: obj.f(obj.f(), obj.f())
  N("List", 15, "", <<75, 76>>, 0, <<>>, 0, <<75, 76>>),  \* 43: [a, b]
  N("Call", 15, "", <<77>>, 77, <<>>, 0, <<>>),  \* 44: f()
  N("Name", 16, "x", <<>>, 0, <<>>, 0, <<>>),  \* 45: x
  N("Call", 16, "", <<78>>, 78, <<>>, 0, <<>>),  \* 46: f()
  N("Name", 17, "y", <<>>, 0, <<>>, 0, <<>>),  \* 47: y
  N("Call", 17, "", <<79, 80>>, 79, <<>>, 0, <<>>),  \* 48: obj.g(obj.f())
  N("Name", 18, "z", <<>>, 0, <<>>, 0, <<>>),  \* 49: z
  N("Call", 18, "", <<81, 82>>, 81, <<>>, 0, <<>>),  \* 50: f(f())
  N("Attribute", 1, "f", <<83>>, 0, <<>>, 0, <<>>),  \* 51: obj.f
  N("Name", 2, "a", <<>>, 0, <<>>, 0, <<>>),  \* 52: a
  N("Name", 2, "b", <<>>, 0, <<>>, 0, <<>>),  \* 53: b
  N("Call", 2, "", <<84>>, 84, <<>>, 0, <<>>),  \* 54: obj.f()
  N("Call", 2, "", <<85>>, 85, <<>>, 0, <<>>),  \* 55: obj.f()
  N("Name", 3, "self", <<>>, 0, <<>>, 0, <<>>),  \* 56: self
  N("Name", 3, "f", <<>>, 0, <<>>, 0, <<>>),  \* 57: f
  N("Name", 4, "f", <<>>, 0, <<>>, 0, <<>>),  \* 58: f
  N("Call", 5, "", <<86>>, 86, <<>>, 0, <<>>),  \* 59: g()
  N("Name", 6, "obj", <<>>, 0, <<>>, 0, <<>>),  \* 60: obj
  N("Call", 7, "", <<87, 88>>, 87, <<>>, 0, <<>>),  \* 61: h(i)
  N("comprehension", 0, "", <<89, 90>>, 0, <<>>, 89, <<>>),  \* 62: 
  N("Name", 8, "print", <<>>, 0, <<>>, 0, <<>>),  \* 63: print
  N("Call", 8, "", <<91>>, 91, <<>>, 0, <<>>),  \* 64: obj.f()
  N("Call", 10, "", <<92>>, 92, <<>>, 0, <<>>),  \* 65: obj.f()
  N("Name", 11, "f", <<>>, 0, <<>>, 0, <<>>),  \* 66: f
  N("Name", 12, "a", <<>>, 0, <<>>, 0, <<>>),  \* 67: a
  N("Tuple", 12, "", <<93, 94>>, 0, <<>>, 0, <<93, 94>>),  \* 68: (b, c)
  N("Name", 12, "f", <<>>, 0, <<>>, 0, <<>>),  \* 69: f
  N("Name", 13, "f", <<>>, 0, <<>>, 0, <<>>),  \* 70: f
  N("Name", 13, "f", <<>>, 0, <<>>, 0, <<>>),  \* 71: f
  N("Attribute", 14, "f", <<95>>, 0, <<>>, 0, <<>>),  \* 72: obj.f
  N("Call", 14, "", <<96>>, 96, <<>>, 0, <<>>),  \* 73: obj.f()
  N("Call", 14, "", <<97>>, 97, <<>>, 0, <<>>),  \* 74: obj.f()
  N("Name", 15, "a", <<>>, 0, <<>>, 0, <<>>),  \* 75: a
  N("Name", 15, "b", <<>>, 0, <<>>, 0, <<>>),  \* 76: b
  N("Name", 15, "f", <<>>, 0, <<>>, 0, <<>>),  \* 77: f
  N("Name", 16, "f", <<>>, 0, <<>>, 0, <<>>),  \* 78: f
  N("Attribute", 17, "g", <<98>>, 0, <<>>, 0, <<>>),  \* 79: obj.g
  N("Call", 17, "", <<99>>, 99, <<>>, 0, <<>>),  \* 80: obj.f()
  N("Name", 18, "f", <<>>, 0, <<>>, 0, <<>>),  \* 81: f
  N("Call", 18, "", <<100>>, 100, <<>>, 0, <<>>),  \* 82: f()
  N("Name", 1, "obj", <<>>, 0, <<>>, 0, <<>>),  \* 83: obj
  N("Attribute", 2, "f", <<101>>, 0, <<>>, 0, <<>>),  \* 84: obj.f
  N("Attribute", 2, "f", <<102>>, 0, <<>>, 0, <<>>),  \* 85: obj.f
  N("Name", 5, "g", <<>>, 0, <<>>, 0, <<>>),  \* 86: g
  N("Name", 7, "h", <<>>, 0, <<>>, 0, <<>>),  \* 87: h
  N("Name", 7, "i", <<>>, 0, <<>>, 0, <<>>),  \* 88: i
  N("Name", 7, "i", <<>>, 0, <<>>, 0, <<>>),  \* 89: i
  N("Call", 7, "", <<103>>, 103, <<>>, 0, <<>>),  \* 90: f()
  N("Attribute", 8, "f", <<104>>, 0, <<>>, 0, <<>>),  \* 91: obj.f
  N("Attribute", 10, "f", <<105>>, 0, <<>>, 0, <<>>),  \* 92: obj.f
  N("Name", 12, "b", <<>>, 0, <<>>, 0, <<>>),  \* 93: b
  N("Name", 12, "c", <<>>, 0, <<>>, 0, <<>>),  \* 94: c
  N("Name", 14, "obj", <<>>, 0, <<>>, 0, <<>>),  \* 95: obj
  N("Attribute", 14, "f", <<106>>, 0, <<>>, 0, <<>>),  \* 96: obj.f
  N("Attribute", 14, "f", <<107>>, 0, <<>>, 0, <<>>),  \* 97: obj.f
  N("Name", 17, "obj", <<>>, 0, <<>>, 0, <<>>),  \* 98: obj
  N("Attribute", 17, "f", <<108>>, 0, <<>>, 0, <<>>),  \* 99: obj.f
  N("Name", 18, "f", <<>>, 0, <<>>, 0, <<>>),  \* 100: f
  N("Name", 2, "obj", <<>>, 0, <<>>, 0, <<>>),  \* 101: obj
  N("Name", 2, "obj", <<>>, 0, <<>>, 0, <<>>),  \* 102: obj
  N("Name", 7, "f", <<>>, 0, <<>>, 0, <<>>),  \* 103: f
  N("Name", 8, "obj", <<>>, 0, <<>>, 0, <<>>),  \* 104: obj
  N("Name", 10, "obj", <<>>, 0, <<>>, 0, <<>>),  \* 105: obj
  N("Name", 14, "obj", <<>>, 0, <<>>, 0, <<>>),  \* 106: obj
  N("Name", 14, "obj", <<>>, 0, <<>>, 0, <<>>),  \* 107: obj
  N("Name", 17, "obj", <<>>, 0, <<>>, 0, <<>>) \* 108: obj
>>

(* The greatest lineno of a tree. *)
MaxLineOf(tree) ==
    CHOOSE l \in {tree[n].lineno : n \in 1..Len(tree)} :
        \A n \in 1..Len(tree) : tree[n].lineno <= l

CoreSize == Len(TreeACore)
LastCoreLine == MaxLineOf(TreeACore)

(* Lines LastCoreLine+1 .. LastCoreLine+NumFiller of a.py each hold the
   expression statement `obj.f`: Expr -> Attribute(attr f) -> Name(obj).
   The j-th node after a core of `size` nodes ending on line `last`: *)
FillerNode(size, last, j) ==
    LET n == size + j
        line == last + ((j - 1) \div 3) + 1
    IN  CASE j % 3 = 1 -> N("Expr", line, "", <<n + 1>>, 0, <<>>, 0, <<>>)
          [] j % 3 = 2 -> N("Attribute", line, "f", <<n + 1>>, 0, <<>>, 0, <<>>)
          [] OTHER     -> N("Name", line, "obj", <<>>, 0, <<>>, 0, <<>>)

(* <<f(lo), ..., f(hi)>> and s[lo] \o ... \o s[hi], by halving. *)
RECURSIVE Tabulate(_, _, _)
Tabulate(f(_), lo, hi) ==
    IF lo > hi THEN <<>>
    ELSE IF lo = hi THEN <<f(lo)>>
    ELSE LET mid == (lo + hi) \div 2
         IN  Tabulate(f, lo, mid) \o Tabulate(f, mid + 1, hi)

RECURSIVE Flatten(_, _, _)
Flatten(s, lo, hi) ==
    IF lo > hi THEN <<>>
    ELSE IF lo = hi THEN s[lo]
    ELSE LET mid == (lo + hi) \div 2
         IN  Flatten(s, lo, mid) \o Flatten(s, mid + 1, hi)

(* A tree with NumFiller such lines after its last line. *)
WithFiller(core, last) ==
    LET expr(i) == Len(core) + 3 * (i - 1) + 1
        node(j) == FillerNode(Len(core), last, j)
    IN  <<[core[1] EXCEPT !.children = @ \o Tabulate(expr, 1, NumFiller)]>>
            \o Tail(core) \o Tabulate(node, 1, 3 * NumFiller)

TreeA == WithFiller(TreeACore, LastCoreLine)

(* Every other source file holds the single line `x = obj.f()`. *)
TreeB == <<
  N("Module", 0, "", <<2>>, 0, <<>>, 0, <<>>),
  N("Assign", 1, "", <<3, 4>>, 0, <<3>>, 0, <<>>),
  N("Name", 1, "x", <<>>, 0, <<>>, 0, <<>>),
  N("Call", 1, "", <<5>>, 5, <<>>, 0, <<>>),
  N("Attribute", 1, "f", <<6>>, 0, <<>>, 0, <<>>),
  N("Name", 1, "obj", <<>>, 0, <<>>, 0, <<>>)
>>

(* Source files are numbered; PathA is a.py. *)
PathA == 1
Paths == PathA..(PathA + NumColdPaths)


(***************************************************************************)
(* FileInfo.__init__: one ast.walk (breadth first from the root); for each *)
(* node visited, every child gets child.parent = node, and a node that has *)
(* a lineno is appended to nodes_by_line[lineno].  The walk is computed    *)
(* level by level, which is the order ast.walk's queue yields.             *)
(***************************************************************************)
ChildrenOf(tree, level) ==
    LET kids(i) == tree[level[i]].children
    IN  Flatten(Tabulate(kids, 1, Len(level)), 1, Len(level))

RECURSIVE WalkFrom(_, _, _)
WalkFrom(tree, level, acc) ==
    IF level = <<>> THEN acc
    ELSE WalkFrom(tree, ChildrenOf(tree, level), acc \o level)

Walk(tree, root) == WalkFrom(tree, <<root>>, <<>>)

InSeq(x, s) == \E i \in 1..Len(s) : s[i] = x

FileInfoIndex(tree, order) ==
    LET parent(n) == IF \E i \in 1..Len(order) : InSeq(n, tree[order[i]].children)
                     THEN order[CHOOSE i \in 1..Len(order) :
                                    InSeq(n, tree[order[i]].children)]
                     ELSE 0
        at(l) == SelectSeq(order, LAMBDA n : tree[n].lineno = l)
    IN  [tree |-> tree,
         parent |-> Tabulate(parent, 1, Len(tree)),
         nodes_by_line |-> Tabulate(at, 1, MaxLineOf(tree))]

FileInfoInit(tree) == FileInfoIndex(tree, Walk(tree, 1))

(* The FileInfo built for a.py and for any other file, evaluated once: a
   FileInfo does not change after __init__ (nodes_by_line is a defaultdict,
   so looking up a line without nodes yields the empty list). *)
DocA == FileInfoInit(TreeA)
DocB == FileInfoInit(TreeB)
DocOf(path) == IF path = PathA THEN DocA ELSE DocB

(* Reads of a FileInfo fi: self.nodes_by_line[line], a node of self.tree,
   node.parent. *)
nodes_by_line(fi, line) ==
    IF line \in 1..Len(fi.nodes_by_line) THEN fi.nodes_by_line[line] ELSE <<>>

NodeAt(fi, n) == fi.tree[n]
ParentOf(fi, n) == fi.parent[n]

(***************************************************************************)
(* functools.lru_cache: a hit returns the stored value and makes the entry *)
(* the most recent; a miss that returns stores the value as the most       *)
(* recent entry and, when the cache is full, drops the least recent one; a *)
(* call that raises stores nothing.                                        *)
(***************************************************************************)
LruHas(cache, key) == \E i \in 1..Len(cache) : cache[i].key = key

LruVal(cache, key) ==
    cache[CHOOSE i \in 1..Len(cache) : cache[i].key = key].val

LruTouch(cache, key) ==
    <<[key |-> key, val |-> LruVal(cache, key)]>>
        \o SelectSeq(cache, LAMBDA e : e.key # key)

LruPut(cache, key, val) ==
    LET full == <<[key |-> key, val |-> val]>> \o cache
    IN  IF Len(full) > LruMaxSize THEN SubSeq(full, 1, LruMaxSize) ELSE full

(***************************************************************************)
(* file_info = lru_cache()(FileInfo): the FileInfo for a path.  A miss     *)
(* builds a new FileInfo object (one file read, one parse); objects are    *)
(* numbered in the order they are built.                                   *)
(***************************************************************************)
file_info_val(path) ==
    IF LruHas(fileCache, path) THEN LruVal(fileCache, path) ELSE nextInst

file_info_cache(path) ==
    IF LruHas(fileCache, path) THEN LruTouch(fileCache, path)
    ELSE LruPut(fileCache, path, nextInst)

file_info_built(path) ==
    IF LruHas(fileCache, path) THEN nextInst ELSE nextInst + 1

NoteFirst(path) ==
    [firstInst EXCEPT ![path] = IF @ = 0 THEN file_info_val(path) ELSE @]

(***************************************************************************)
(* FileInfo._attr_call_at(line, name), without its cache: the outcome is   *)
(* None, the call node, or ValueError('Found <count> possible calls to     *)
(* <name>').                                                               *)
(***************************************************************************)
AttrOptions(fi, line, name) ==
    SelectSeq(nodes_by_line(fi, line),
              LAMBDA n : /\ NodeAt(fi, n).kind = "Call"
                         /\ NodeAt(fi, NodeAt(fi, n).func).kind = "Attribute"
                         /\ NodeAt(fi, NodeAt(fi, n).func).name = name)

AttrOutcome(kind, node, count, name) ==
    [kind |-> kind, node |-> node, count |-> count, name |-> name]

(* Faulty variant: with several candidates the first one is taken. *)
AttrPickFirst(options, name) ==
    IF options = <<>> THEN AttrOutcome("None", 0, 0, "")
    ELSE AttrOutcome("call", options[1], 0, "")

AttrPick(options, name) ==
    IF options = <<>> THEN AttrOutcome("None", 0, 0, "")
    ELSE IF Len(options) = 1 THEN AttrOutcome("call", options[1], 0, "")
    ELSE AttrOutcome("ValueError", 0, Len(options), name)

attr_call_body(fi, line, name) == AttrPick(AttrOptions(fi, line, name), name)

(* ... and through @lru_cache(), keyed by (self, line, name). *)
(* ... and through @lru_cache(), keyed by (self, line, name): the outcome of
   a call, and the cache after it.  body is what the function body yields
   when it runs, that is, on a miss. *)
attr_call_at(key, body) ==
    IF LruHas(attrCache, key) THEN LruVal(attrCache, key) ELSE body

attr_call_cache(key, body) ==
    IF LruHas(attrCache, key) THEN LruTouch(attrCache, key)
    ELSE IF body.kind = "ValueError" THEN attrCache
    ELSE LruPut(attrCache, key, body)

(***************************************************************************)
(* Spell.  A spell is its object identity and its function's __name__.     *)
(***************************************************************************)
SpellF == [obj |-> "spell_f", name |-> "f"]
SpellG == [obj |-> "spell_g", name |-> "g"]

Codes == {"helper", "user"}

Frame(code, path, lineno) == [code |-> code, path |-> path, lineno |-> lineno]

(* Spell.__get__, lines 145-147: start at the immediate caller (stack[1])
   and follow f_back while the frame's code is excluded.  0 stands for the
   None that f_back yields above the outermost frame; reading None.f_code
   raises AttributeError. *)
RECURSIVE SkipExcluded(_, _, _)
SkipExcluded(stack, i, excl) ==
    IF i > Len(stack) THEN 0
    ELSE IF stack[i].code \in excl THEN SkipExcluded(stack, i + 1, excl)
    ELSE i

(* Faulty variant: the immediate caller is used as it is, excluded or not. *)
GetFrameNoSkip(stack, excl) == 1

GetFrame(stack, excl) == SkipExcluded(stack, 1, excl)

(* Lines 152-155: None gives the spell itself, a call gives the wrapper
   bound to FrameInfo(frame, call); neither runs self.func.  A ValueError
   of _attr_call_at propagates. *)
(* Faulty variant: a mere reference (None) runs self.func at once. *)
GetResultEager(out) ==
    IF out.kind = "None" THEN [kind |-> "self", ran |-> TRUE]
    ELSE IF out.kind = "call" THEN [kind |-> "wrapper", ran |-> FALSE]
    ELSE [kind |-> out.kind, ran |-> FALSE]

GetResult(out) ==
    IF out.kind = "None" THEN [kind |-> "self", ran |-> FALSE]
    ELSE IF out.kind = "call" THEN [kind |-> "wrapper", ran |-> FALSE]
    ELSE [kind |-> out.kind, ran |-> FALSE]

(* What the last operation did: op, the kind of value returned or error
   raised, the spell's function name, the caller chain and exclusion registry it saw, the index of the
   frame it resolved against (0: none), that frame's line, the outcome of
   the call-site resolution, whether self.func ran, whether the resolver's
   body ran (a cache miss), whether the key had been resolved before, and
   the call node of the FrameInfo at hand (0: none). *)
Ret(op, kind, name, stack, excl, frame, line, site, ran, walked, again, call) ==
    [op |-> op, kind |-> kind, name |-> name, stack |-> stack, excl |-> excl,
     frame |-> frame, line |-> line, site |-> site, ran |-> ran,
     walked |-> walked, again |-> again, call |-> call]

NoSite == AttrOutcome("", 0, 0, "")

SpellGet(spell, stack) ==
    LET i == GetFrame(stack, excluded)
    IN  IF i = 0
        THEN /\ ret' = Ret("get", "AttributeError", spell.name, stack, excluded, 0, 0, NoSite,
                           FALSE, FALSE, FALSE, 0)
             /\ UNCHANGED <<fileCache, nextInst, attrCache, firstInst, resolved,
                            funcRuns>>
        ELSE LET Resolved(frame, key, body, out, res) ==
                     /\ fileCache' = file_info_cache(frame.path)
                     /\ nextInst' = file_info_built(frame.path)
                     /\ firstInst' = NoteFirst(frame.path)
                     /\ attrCache' = attr_call_cache(key, body)
                     /\ resolved' = IF out.kind = "ValueError" THEN resolved
                                    ELSE resolved \cup {[key |-> key, out |-> out]}
                     /\ funcRuns' = IF res.ran THEN funcRuns + 1 ELSE funcRuns
                     /\ ret' = Ret("get", res.kind, spell.name, stack, excluded, i,
                                   frame.lineno, out, res.ran, ~LruHas(attrCache, key),
                                   \E r \in resolved : r.key = key, out.node)
                 Resolve(frame, key, body) ==
                     Resolved(frame, key, body, attr_call_at(key, body),
                              GetResult(attr_call_at(key, body)))
             IN  Resolve(stack[i],
                         <<file_info_val(stack[i].path), stack[i].lineno, spell.name>>,
                         attr_call_body(DocOf(stack[i].path), stack[i].lineno, spell.name))

(* no_spells(func): Spell.excluded.add(func.__code__). *)
NoSpells(code) ==
    /\ code \notin excluded
    /\ excluded' = excluded \cup {code}
    /\ UNCHANGED <<fileCache, nextInst, attrCache, callsCache, stmtCache,
                   namesCache, env, ret, funcRuns, firstInst, resolved>>

(* Spell.__getitem__'s wrapper, called: self.func(frame_info, ...) runs. *)
WrapperCall ==
    /\ ret.kind = "wrapper"
    /\ funcRuns < MaxRuns
    /\ funcRuns' = funcRuns + 1
    /\ ret' = [ret EXCEPT !.op = "wrapper()", !.ran = TRUE]
    /\ UNCHANGED <<fileCache, nextInst, attrCache, callsCache, stmtCache,
                   namesCache, excluded, env, firstInst, resolved>>

(***************************************************************************)
(* littleutils.only: the single element of a collection, AssertionError    *)
(* ('Expected one value, found <n>') for any other size.                   *)
(***************************************************************************)
OnlyOfSeq(s) ==
    IF Len(s) = 1 THEN AttrOutcome("call", s[1], 0, "")
    ELSE AttrOutcome("AssertionError", 0, Len(s), "")

(***************************************************************************)
(* stmt_containing_node: follow .parent until an ast.stmt is reached.      *)
(***************************************************************************)
StmtKinds == {"Assign", "AugAssign", "AnnAssign", "For", "While", "If", "With",
              "Expr", "Return", "FunctionDef", "ClassDef", "Pass"}

RECURSIVE stmt_containing_body(_, _)
stmt_containing_body(fi, n) ==
    IF NodeAt(fi, n).kind \in StmtKinds THEN n
    ELSE stmt_containing_body(fi, ParentOf(fi, n))

(* ... through @lru_cache(), keyed by the node (an object of one FileInfo). *)
stmt_containing_node(fi, n) == stmt_containing_body(fi, n)

RECURSIVE StmtCacheAfter(_, _, _, _, _)
StmtCacheAfter(cache, inst, fi, nodes, i) ==
    IF i > Len(nodes) THEN cache
    ELSE LET key == <<inst, nodes[i]>>
         IN  StmtCacheAfter(
                 IF LruHas(cache, key) THEN LruTouch(cache, key)
                 ELSE LruPut(cache, key, stmt_containing_body(fi, nodes[i])),
                 inst, fi, nodes, i + 1)

(***************************************************************************)
(* FileInfo._calls_in_stmt_at_line(lineno), without its cache: the         *)
(* statement that contains every node of the line (only of a set), then    *)
(* every Call with a bare Name callee found by ast.walk of that WHOLE      *)
(* statement.                                                              *)
(***************************************************************************)
StmtsAtLine(fi, lineno) ==
    {stmt_containing_node(fi, nodes_by_line(fi, lineno)[i]) :
        i \in 1..Len(nodes_by_line(fi, lineno))}

IsPlainCall(fi, n) ==
    /\ NodeAt(fi, n).kind = "Call"
    /\ NodeAt(fi, NodeAt(fi, n).func).kind = "Name"

CallsScope(fi, stmt) == Walk(fi.tree, stmt)

calls_in_stmt_body(fi, lineno) ==
    LET stmts == StmtsAtLine(fi, lineno)
    IN  IF Cardinality(stmts) # 1
        THEN [kind |-> "AssertionError", count |-> Cardinality(stmts), calls |-> <<>>]
        ELSE [kind |-> "ok", count |-> 0,
              calls |-> SelectSeq(CallsScope(fi, CHOOSE s \in stmts : TRUE),
                                  LAMBDA n : IsPlainCall(fi, n))]

(* ... through @lru_cache(), keyed by (self, lineno). *)
calls_in_stmt_at_line(key, body) ==
    IF LruHas(callsCache, key) THEN LruVal(callsCache, key) ELSE body

(***************************************************************************)
(* _resolve_var(frame, name): the first of f_locals, f_globals, f_builtins *)
(* that has the name; NameError when none has.  A binding layer is a       *)
(* function from the names bound in it to objects.                         *)
(***************************************************************************)
(* Faulty variant: globals are searched before locals. *)
LayersGlobalsFirst(e) == <<e.globals, e.locals, e.builtins>>

Layers(e) == <<e.locals, e.globals, e.builtins>>

RECURSIVE ResolveIn(_, _, _)
ResolveIn(layers, i, name) ==
    IF i > Len(layers) THEN AttrOutcome("NameError", "", 0, name)
    ELSE IF name \in DOMAIN layers[i] THEN AttrOutcome("value", layers[i][name], 0, name)
    ELSE ResolveIn(layers, i + 1, name)

resolve_var(e, name) == ResolveIn(Layers(e), 1, name)

(***************************************************************************)
(* Python's ==, as line 64 applies it with the resolved object on the      *)
(* left: an object equals itself, and a transparent proxy                  *)
(* (wrapt.ObjectProxy) compares as the object it wraps.                    *)
(***************************************************************************)
PyEq(a, b) == a = b \/ (a = "proxy_f" /\ b = "spell_f")

(***************************************************************************)
(* FileInfo._plain_call_at(frame, val): the list comprehension resolves    *)
(* every candidate's callee in order (the first NameError ends it), keeps  *)
(* those equal to val, and only() takes the single one.                    *)
(***************************************************************************)
RECURSIVE MatchCalls(_, _, _, _, _, _)
MatchCalls(fi, e, val, calls, i, acc) ==
    IF i > Len(calls) THEN OnlyOfSeq(acc)
    ELSE LET r == resolve_var(e, NodeAt(fi, NodeAt(fi, calls[i]).func).name)
         IN  IF r.kind = "NameError" THEN AttrOutcome("NameError", 0, 0, r.name)
             ELSE MatchCalls(fi, e, val, calls, i + 1,
                             IF PyEq(r.node, val) THEN Append(acc, calls[i]) ELSE acc)

plain_call_at(fi, found, e, val) ==
    IF found.kind = "AssertionError"
    THEN AttrOutcome("AssertionError", 0, found.count, "")
    ELSE MatchCalls(fi, e, val, found.calls, 1, <<>>)

(***************************************************************************)
(* Spell.__call__: the immediate caller's frame (no excluded-frame skip),  *)
(* _plain_call_at, then the wrapper runs self.func.  A miss of             *)
(* _calls_in_stmt_at_line looks every node of the line up in               *)
(* stmt_containing_node and, unless only() raised, stores its list.        *)
(***************************************************************************)
SpellCall(spell, frame) ==
    LET Called(fi, inst, key, miss, body, out) ==
            /\ funcRuns < MaxRuns
            /\ fileCache' = file_info_cache(frame.path)
            /\ nextInst' = file_info_built(frame.path)
            /\ firstInst' = NoteFirst(frame.path)
            /\ stmtCache' = IF miss
                            THEN StmtCacheAfter(stmtCache, inst, fi,
                                                nodes_by_line(fi, frame.lineno), 1)
                            ELSE stmtCache
            /\ callsCache' = IF ~miss THEN LruTouch(callsCache, key)
                             ELSE IF body.kind = "ok" THEN LruPut(callsCache, key, body)
                             ELSE callsCache
            /\ funcRuns' = IF out.kind = "call" THEN funcRuns + 1 ELSE funcRuns
            /\ ret' = Ret("call", IF out.kind = "call" THEN "returned" ELSE out.kind,
                          spell.name, <<frame>>, excluded, 1, frame.lineno, out,
                          out.kind = "call", miss, FALSE, out.node)
            /\ UNCHANGED <<attrCache, namesCache, excluded, env, resolved>>
        Found(fi, inst, key, body) ==
            Called(fi, inst, key, ~LruHas(callsCache, key), body,
                   plain_call_at(fi, calls_in_stmt_at_line(key, body), env, spell.obj))
        In(fi, inst) ==
            Found(fi, inst, <<inst, frame.lineno>>, calls_in_stmt_body(fi, frame.lineno))
    IN  In(DocOf(frame.path), file_info_val(frame.path))

(***************************************************************************)
(* The state when core.py has been imported: empty caches, no FileInfo     *)
(* built, nothing excluded, no function run.                               *)
(***************************************************************************)
InitState ==
    /\ fileCache = <<>>
    /\ nextInst = 1
    /\ attrCache = <<>>
    /\ callsCache = <<>>
    /\ stmtCache = <<>>
    /\ namesCache = <<>>
    /\ excluded = {}
    /\ ret = Ret("", "", "", <<>>, {}, 0, 0, NoSite, FALSE, FALSE, FALSE, 0)
    /\ funcRuns = 0
    /\ firstInst = [p \in Paths |-> 0]
    /\ resolved = {}

(* The bindings of a module that defines spell f at top level. *)
ModuleEnv ==
    [locals |-> <<>>, globals |-> [n \in {"f"} |-> "spell_f"], builtins |-> <<>>]

RECURSIVE SeqsUpTo(_, _)
SeqsUpTo(S, n) ==
    IF n = 0 THEN {<<>>}
    ELSE LET shorter == SeqsUpTo(S, n - 1)
         IN  shorter \cup {Append(s, x) : s \in shorter, x \in S}

(***************************************************************************)
(* SpecGet: attribute accesses of spell f from caller chains of up to      *)
(* MaxStack frames in a.py (line 1: `x = obj.f()`, line 6: `obj.f`), with  *)
(* helpers registered through no_spells, and invocations of what the       *)
(* access returned: the wrapper, or the spell itself (line 3:              *)
(* `self.value = f()`, line 18: `z = f(f())`).                             *)
(***************************************************************************)
GetSites == {1, 6}
GetFrames == {Frame(c, PathA, l) : c \in Codes, l \in GetSites}
GetStacks == SeqsUpTo(GetFrames, MaxStack) \ {<<>>}
SelfCallSites == {3, 18}

InitGet == InitState /\ env = ModuleEnv

Get ==
    \E stack \in GetStacks :
        /\ SpellGet(SpellF, stack)
        /\ UNCHANGED <<callsCache, stmtCache, namesCache, excluded, env>>

Register == \E code \in Codes : NoSpells(code)

SelfCall ==
    /\ ret.kind = "self"
    /\ \E line \in SelfCallSites : SpellCall(SpellF, Frame("user", PathA, line))

NextGet == Get \/ Register \/ WrapperCall \/ SelfCall

SpecGet == InitGet /\ [][NextGet]_vars

(***************************************************************************)
(* SpecAttr: attribute accesses from a single user frame, on lines of a.py *)
(* with no, one, two and three attribute calls of the spell's name, and on *)
(* line 1 of another file.                                                 *)
(***************************************************************************)
AttrSites ==
    {<<PathA, 1, SpellF>>, <<PathA, 2, SpellF>>, <<PathA, 6, SpellF>>,
     <<PathA, 14, SpellF>>, <<PathA, 17, SpellF>>, <<PathA, 17, SpellG>>,
     <<PathA + 1, 1, SpellF>>}

AccessAt(path, line, spell) ==
    /\ SpellGet(spell, <<Frame("user", path, line)>>)
    /\ UNCHANGED <<callsCache, stmtCache, namesCache, excluded, env>>

Access == \E s \in AttrSites : AccessAt(s[1], s[2], s[3])

NextAttr == Access \/ WrapperCall

SpecAttr == InitGet /\ [][NextAttr]_vars

(***************************************************************************)
(* SpecCache: the same accesses at one hot site (line 1 of a.py) and at    *)
(* the filler lines of a.py, each filler line for the first time in turn.  *)
(***************************************************************************)
ColdLinesSeen == Cardinality({r \in resolved : r.key[2] > LastCoreLine})

AccessHot == AccessAt(PathA, 1, SpellF)

AccessCold ==
    /\ ColdLinesSeen < NumFiller
    /\ AccessAt(PathA, LastCoreLine + ColdLinesSeen + 1, SpellF)

NextCache == AccessHot \/ AccessCold

SpecCache == InitGet /\ [][NextCache]_vars

(***************************************************************************)
(* SpecDocs: FileInfo.for_frame(frame), i.e. file_info(co_filename), for   *)
(* frames of a.py and of further files, each further file for the first    *)
(* time in turn.                                                           *)
(***************************************************************************)
ForFrame(path) ==
    /\ fileCache' = file_info_cache(path)
    /\ nextInst' = file_info_built(path)
    /\ firstInst' = NoteFirst(path)
    /\ ret' = Ret("for_frame", "FileInfo", "", <<Frame("user", path, 1)>>, excluded,
                  1, 1, AttrOutcome("FileInfo", file_info_val(path), 0, ""),
                  FALSE, ~LruHas(fileCache, path), firstInst[path] # 0, 0)
    /\ UNCHANGED <<attrCache, callsCache, stmtCache, namesCache, excluded, env,
                   funcRuns, resolved>>

ColdPathsSeen == Cardinality({p \in Paths : p > PathA /\ firstInst[p] # 0})

LoadHot == ForFrame(PathA)

LoadCold ==
    /\ ColdPathsSeen < NumColdPaths
    /\ ForFrame(PathA + 1 + ColdPathsSeen)

NextDocs == LoadHot \/ LoadCold

SpecDocs == InitGet /\ [][NextDocs]_vars

(***************************************************************************)
(* SpecPlain: direct invocations f(...) of spell f from a user frame of    *)
(* a.py, under bindings in which f is global (the spell, a proxy of it, or *)
(* another function) and g, h may be local.  Lines: 3 `self.value = f()`,  *)
(* 4 `for k in f():` (body `g()`), 7 `ys = [h(i) for i in f()]`,           *)
(* 13 `f(); f()`, 18 `z = f(f())`.                                         *)
(***************************************************************************)
PartialMaps(names, vals) == UNION {[S -> vals] : S \in SUBSET names}

PlainEnvs ==
    {[locals |-> l, globals |-> g, builtins |-> [n \in {"print"} |-> "print"]] :
        l \in PartialMaps({"g", "h"}, {"spell_f", "other"}),
        g \in [{"f"} -> {"spell_f", "proxy_f", "other"}]}

PlainSites == {3, 4, 7, 13, 18}

InitPlain == InitState /\ env \in PlainEnvs

CallAt == \E line \in PlainSites : SpellCall(SpellF, Frame("user", PathA, line))

NextPlain == CallAt

SpecPlain == InitPlain /\ [][NextPlain]_vars

(***************************************************************************)
(* SpecResolve: _resolve_var(frame, name) for names f, g, h under every    *)
(* choice of three binding layers over f and g.                            *)
(***************************************************************************)
ResolveEnvs ==
    {[locals |-> l, globals |-> g, builtins |-> b] :
        l \in PartialMaps({"f", "g"}, {"spell_f", "other"}),
        g \in PartialMaps({"f", "g"}, {"spell_f", "other"}),
        b \in PartialMaps({"f", "g"}, {"builtin"})}

InitResolve == InitState /\ env \in ResolveEnvs

ResolveVar(name) ==
    /\ ret' = Ret("_resolve_var", resolve_var(env, name).kind, name, <<>>, excluded,
                  0, 0, resolve_var(env, name), FALSE, FALSE, FALSE, 0)
    /\ UNCHANGED <<fileCache, nextInst, attrCache, callsCache, stmtCache,
                   namesCache, excluded, env, funcRuns, firstInst, resolved>>

Resolve == \E name \in {"f", "g", "h"} : ResolveVar(name)

NextResolve == Resolve

SpecResolve == InitResolve /\ [][NextResolve]_vars

(***************************************************************************)
(* nearest_assigned_names(node): climb to the nearest ast.stmt or          *)
(* ast.comprehension; an Assign gives only(node.targets), a For or         *)
(* comprehension gives node.target, anything else raises                   *)
(* TypeError('No assignment found'); then node_names(target), and the      *)
(* function returns the pair (names, node).                                *)
(***************************************************************************)
(* Faulty variant: the climb stops at statements only. *)
IsAnchorStmtOnly(fi, n) == NodeAt(fi, n).kind \in StmtKinds

IsAnchor(fi, n) == NodeAt(fi, n).kind \in StmtKinds \cup {"comprehension"}

RECURSIVE ClimbToAnchor(_, _)
ClimbToAnchor(fi, n) ==
    IF IsAnchor(fi, n) THEN n ELSE ClimbToAnchor(fi, ParentOf(fi, n))

(* node_name: a Name gives its id, an Attribute its attr, anything else
   raises TypeError('Cannot extract name from ...'), here "". *)
node_name(fi, n) ==
    IF NodeAt(fi, n).kind \in {"Name", "Attribute"} THEN NodeAt(fi, n).name
    ELSE ""

(* Faulty variant: a tuple target yields its first element only. *)
NodeNameItemsFirst(fi, n) ==
    IF NodeAt(fi, n).kind \in {"Tuple", "List"}
    THEN <<NodeAt(fi, n).elts[1]>> ELSE <<n>>

(* node_names: the nodes whose names are taken, in order. *)
NodeNameItems(fi, n) ==
    IF NodeAt(fi, n).kind \in {"Tuple", "List"} THEN NodeAt(fi, n).elts ELSE <<n>>

NamesOutcome(kind, shape, names, node, count) ==
    [kind |-> kind, shape |-> shape, names |-> names, node |-> node, count |-> count]

node_names(fi, target, anchor) ==
    LET items == NodeNameItems(fi, target)
        names == [i \in 1..Len(items) |-> node_name(fi, items[i])]
    IN  IF \E i \in 1..Len(items) : names[i] = ""
        THEN NamesOutcome("TypeError: Cannot extract name", "", <<>>, 0, 0)
        ELSE NamesOutcome("ok", "(names, node)", names, anchor, 0)

nearest_assigned_body(fi, n) ==
    LET anchor == ClimbToAnchor(fi, n)
        node == NodeAt(fi, anchor)
    IN  IF node.kind = "Assign"
        THEN IF Len(node.targets) = 1 THEN node_names(fi, node.targets[1], anchor)
             ELSE NamesOutcome("AssertionError", "", <<>>, 0, Len(node.targets))
        ELSE IF node.kind \in {"For", "comprehension"}
        THEN node_names(fi, node.target, anchor)
        ELSE NamesOutcome("TypeError: No assignment found", "", <<>>, 0, 0)

(* FrameInfo.assigned_names, through nearest_assigned_names's @lru_cache()
   keyed by the node. *)
AssignedNames(inst, path, call) ==
    LET Returned(key, miss, out, lineno) ==
            /\ namesCache' = IF ~miss THEN LruTouch(namesCache, key)
                             ELSE IF out.kind = "ok" THEN LruPut(namesCache, key, out)
                             ELSE namesCache
            /\ ret' = Ret("assigned_names", out.kind, "", <<Frame("user", path, lineno)>>,
                          excluded, 1, lineno, out, FALSE, miss, FALSE, call)
        Query(fi, key) ==
            Returned(key, ~LruHas(namesCache, key),
                     IF LruHas(namesCache, key) THEN LruVal(namesCache, key)
                     ELSE nearest_assigned_body(fi, call),
                     NodeAt(fi, call).lineno)
    IN  /\ Query(DocOf(path), <<inst, call>>)
        /\ UNCHANGED <<fileCache, nextInst, attrCache, callsCache, stmtCache,
                       excluded, env, funcRuns, firstInst, resolved>>

(***************************************************************************)
(* SpecNames: a.py is loaded, then FrameInfo(frame, call).assigned_names   *)
(* is read for calls of a.py: on lines 1, 2, 3, 4, 7 (the call in the      *)
(* comprehension clause), 15 it has a target; on lines 10 (for body), 16   *)
(* (augmented assignment), 11 (two targets), 12 (nested target) it fails.  *)
(***************************************************************************)
NameLines == {1, 2, 3, 4, 15, 10, 11, 12, 16}

CallsOn(fi) ==
    {n \in 1..Len(fi.tree) :
        /\ NodeAt(fi, n).kind = "Call"
        /\ \/ NodeAt(fi, n).lineno \in NameLines
           \/ /\ NodeAt(fi, n).lineno = 7
              /\ NodeAt(fi, ParentOf(fi, n)).kind = "comprehension"}

NameCalls == CallsOn(DocA)

QueryNames ==
    /\ firstInst[PathA] # 0
    /\ LruHas(fileCache, PathA)
    /\ \E call \in NameCalls : AssignedNames(LruVal(fileCache, PathA), PathA, call)

NextNames == LoadHot \/ QueryNames

SpecNames == InitGet /\ [][NextNames]_vars

(***************************************************************************)
(* C6: the frame Spell.__get__ resolves against is the nearest frame of    *)
(* the caller chain, starting at the immediate caller, whose code is not   *)
(* in Spell.excluded: every frame below it is excluded, it is not, and the *)
(* line resolved is its line.  When every frame is excluded, nothing is    *)
(* resolved at all.                                                        *)
(***************************************************************************)
GetUsesNearestUnexcludedFrame ==
    ret.op = "get" =>
        IF \A j \in 1..Len(ret.stack) : ret.stack[j].code \in ret.excl
        THEN ret.frame = 0 /\ ret.site = NoSite /\ ret.kind = "AttributeError"
        ELSE /\ ret.frame \in 1..Len(ret.stack)
             /\ ret.stack[ret.frame].code \notin ret.excl
             /\ \A j \in 1..(ret.frame - 1) : ret.stack[j].code \in ret.excl
             /\ ret.line = ret.stack[ret.frame].lineno

(* A call made through a registered helper frame is attributed to the
   frame above the helper. *)
GetSkippedHelper ==
    /\ ret.op = "get"
    /\ ret.frame = 2
    /\ ret.stack[1].code = "helper"
    /\ "helper" \in ret.excl
    /\ ret.stack[2].code = "user"
    /\ ret.kind = "wrapper"

(***************************************************************************)
(* C7: an attribute access on a line where _attr_call_at finds no call     *)
(* returns the spell itself and does not run self.func; self.func runs     *)
(* only in a step that invokes the returned wrapper or the spell.          *)
(***************************************************************************)
PassThroughDoesNotRun ==
    /\ [][(ret'.op = "get" /\ ret'.site.kind = "None")
              => (ret'.kind = "self" /\ ~ret'.ran /\ funcRuns' = funcRuns)]_vars
    /\ [][funcRuns' # funcRuns => ret'.op \in {"wrapper()", "call"}]_vars

(* A reference without a call (line 6, `obj.f`) was accessed after the
   function had already run once through a wrapper. *)
PassThroughReached ==
    /\ ret.op = "get"
    /\ ret.site.kind = "None"
    /\ ret.kind = "self"
    /\ ret.line = 6
    /\ funcRuns = 1

(***************************************************************************)
(* C1: _attr_call_at(line, name) has three outcomes, decided by the number *)
(* k of Call nodes of the file on that line whose callee is an Attribute   *)
(* with attr = name: None for k = 0, that call for k = 1, and for k >= 2   *)
(* a ValueError carrying k and the name, with no candidate returned.  Every *)
(* resolution of one (FileInfo, line, name) that returned, returned the    *)
(* same outcome.                                                           *)
(***************************************************************************)
AttrCandidates(fi, line, name) ==
    {n \in 1..Len(fi.tree) :
        /\ fi.tree[n].kind = "Call"
        /\ fi.tree[n].lineno = line
        /\ fi.tree[fi.tree[n].func].kind = "Attribute"
        /\ fi.tree[fi.tree[n].func].name = name}

AttrThreeOutcomes ==
    /\ (ret.op = "get" /\ ret.frame # 0) =>
          LET cands == AttrCandidates(DocOf(ret.stack[ret.frame].path), ret.line, ret.name)
              k == Cardinality(cands)
          IN  /\ k = 0 => ret.site = AttrOutcome("None", 0, 0, "")
              /\ k = 1 => ret.site.kind = "call" /\ cands = {ret.site.node}
              /\ k >= 2 => /\ ret.site = AttrOutcome("ValueError", 0, k, ret.name)
                           /\ ret.kind = "ValueError"
    /\ \A r1, r2 \in resolved : r1.key = r2.key => r1.out = r2.out

(* Line 14 of a.py, `obj.f(obj.f(), obj.f())`, was resolved for f: three
   candidates; and a resolved site has been resolved again. *)
AttrAmbiguousReached ==
    /\ ret.op = "get"
    /\ ret.line = 14
    /\ ret.site.kind = "ValueError"
    /\ ret.site.count = 3
    /\ \E r \in resolved : r.out.kind = "call"
    /\ \E r \in resolved : r.out.kind = "None"

(***************************************************************************)
(* C9: the resolved-call-site cache is append-only: a key (FileInfo, line, *)
(* name) that has been resolved is resolved again without running the     *)
(* resolver's body, whatever was resolved in between, and its entry stays  *)
(* in the cache with the result first stored.                              *)
(***************************************************************************)
CallSiteCacheAppendOnly ==
    /\ (ret.op = "get" /\ ret.again) => ~ret.walked
    /\ \A r \in resolved :
          LruHas(attrCache, r.key) /\ LruVal(attrCache, r.key) = r.out

(***************************************************************************)
(* C5: a path maps to one cached FileInfo: loading a path that was loaded  *)
(* before returns the object its first load built, without reading and     *)
(* parsing the file again, however many other paths were loaded; the cache *)
(* holds an entry for every path loaded so far (its keys are distinct      *)
(* loaded paths, so: as many entries as loaded paths), each entry being    *)
(* the object the first load of its path built.                            *)
(***************************************************************************)
DocumentLoadedOnce ==
    /\ (ret.op = "for_frame" /\ ret.again) =>
          /\ ret.site.node = firstInst[ret.stack[1].path]
          /\ ~ret.walked
    /\ Len(fileCache) = Cardinality({p \in Paths : firstInst[p] # 0})
    /\ \A i \in 1..Len(fileCache) : fileCache[i].val = firstInst[fileCache[i].key]

(***************************************************************************)
(* What a name is bound to in a frame, read off the three layers.          *)
(***************************************************************************)
Binding(e, name) ==
    IF name \in DOMAIN e.locals THEN e.locals[name]
    ELSE IF name \in DOMAIN e.globals THEN e.globals[name]
    ELSE IF name \in DOMAIN e.builtins THEN e.builtins[name]
    ELSE "unbound"

(* a is n or an ancestor of n. *)
RECURSIVE Under(_, _, _)
Under(fi, n, a) ==
    n = a \/ (ParentOf(fi, n) # 0 /\ Under(fi, ParentOf(fi, n), a))

(* The innermost statement around node n. *)
InnermostStmt(fi, n) ==
    CHOOSE s \in 1..Len(fi.tree) :
        /\ NodeAt(fi, s).kind \in StmtKinds
        /\ Under(fi, n, s)
        /\ \A t \in 1..Len(fi.tree) :
               (NodeAt(fi, t).kind \in StmtKinds /\ Under(fi, n, t)) => Under(fi, s, t)

PlainCalls(fi) == {n \in 1..Len(fi.tree) : IsPlainCall(fi, n)}

Callee(fi, n) == NodeAt(fi, NodeAt(fi, n).func).name

(* The bare-name calls of the statement(s) the nodes of a line belong to. *)
PlainCandidates(fi, line) ==
    {n \in PlainCalls(fi) :
        \E m \in 1..Len(fi.tree) :
            NodeAt(fi, m).lineno = line /\ Under(fi, n, InnermostStmt(fi, m))}

(***************************************************************************)
(* C8: _resolve_var returns the binding from the first of locals, globals, *)
(* builtins that has the name, raises NameError exactly when none has,     *)
(* and changes no layer.                                                   *)
(***************************************************************************)
ResolveFirstLayerWins ==
    /\ [](ret.op = "_resolve_var" =>
            /\ ret.name \in DOMAIN env.locals =>
                  ret.site = AttrOutcome("value", env.locals[ret.name], 0, ret.name)
            /\ (ret.name \notin DOMAIN env.locals /\ ret.name \in DOMAIN env.globals) =>
                  ret.site = AttrOutcome("value", env.globals[ret.name], 0, ret.name)
            /\ (/\ ret.name \notin DOMAIN env.locals
                /\ ret.name \notin DOMAIN env.globals
                /\ ret.name \in DOMAIN env.builtins) =>
                  ret.site = AttrOutcome("value", env.builtins[ret.name], 0, ret.name)
            /\ ret.kind = "NameError" <=>
                  ret.name \notin (DOMAIN env.locals \cup DOMAIN env.globals
                                       \cup DOMAIN env.builtins))
    /\ [][ret'.op = "_resolve_var" => env' = env]_vars

(* f is bound in all three layers to different objects and the local one
   was returned. *)
ResolveShadowReached ==
    /\ ret.op = "_resolve_var"
    /\ ret.name = "f"
    /\ "f" \in DOMAIN env.locals /\ "f" \in DOMAIN env.globals /\ "f" \in DOMAIN env.builtins
    /\ env.locals["f"] = "other" /\ env.globals["f"] = "spell_f"
    /\ ret.site.node = "other"

(***************************************************************************)
(* C2: _plain_call_at returns a call only if it is the single candidate of *)
(* the statement whose callee is bound, in the caller frame, to the very   *)
(* object that was called; with two or more such candidates, or none, it   *)
(* raises instead of returning a call.                                     *)
(***************************************************************************)
IdenticalCandidates(fi, line, e, obj) ==
    {n \in PlainCandidates(fi, line) : Binding(e, Callee(fi, n)) = obj}

PlainResolvesByIdentity ==
    ret.op = "call" =>
        LET same == IdenticalCandidates(DocA, ret.line, env, "spell_f")
        IN  /\ ret.site.kind = "call" => same = {ret.site.node}
            /\ Cardinality(same) >= 2 => ret.site.kind # "call"
            /\ same = {} => ret.site.kind # "call"

(***************************************************************************)
(* C10: when exactly one bare-name call positioned on the invoking line is *)
(* bound to the spell (and no name is bound to a mere equal of it),        *)
(* _plain_call_at returns that call, whatever the other lines of a         *)
(* compound statement hold.                                                *)
(***************************************************************************)
NoEqualStrangers(e) ==
    /\ \A n \in DOMAIN e.locals : e.locals[n] # "proxy_f"
    /\ \A n \in DOMAIN e.globals : e.globals[n] # "proxy_f"
    /\ \A n \in DOMAIN e.builtins : e.builtins[n] # "proxy_f"

PlainCallOnLineFound ==
    ret.op = "call" =>
        LET onLine == {n \in PlainCalls(DocA) :
                          /\ NodeAt(DocA, n).lineno = ret.line
                          /\ Binding(env, Callee(DocA, n)) = "spell_f"}
        IN  (NoEqualStrangers(env) /\ Cardinality(onLine) = 1) =>
                (ret.site.kind = "call" /\ onLine = {ret.site.node})

(***************************************************************************)
(* The target names written on the lines of a.py whose call has an         *)
(* assignment-like construct as its nearest statement or clause.           *)
(***************************************************************************)
WrittenNames(line) ==
    CASE line = 1  -> <<"x">>              \* x = obj.f()
      [] line = 2  -> <<"a", "b">>         \* a, b = obj.f(), obj.f()
      [] line = 3  -> <<"value">>          \* self.value = f()
      [] line = 4  -> <<"k">>              \* for k in f():
      [] line = 7  -> <<"i">>              \* ... for i in f()]
      [] line = 15 -> <<"a", "b">>         \* [a, b] = f()
      [] OTHER     -> <<>>

AssignmentLike == {"Assign", "For", "comprehension"}

(* The nearest statement or comprehension clause around node n. *)
NearestAnchor(fi, n) ==
    CHOOSE a \in 1..Len(fi.tree) :
        /\ NodeAt(fi, a).kind \in StmtKinds \cup {"comprehension"}
        /\ Under(fi, n, a)
        /\ \A b \in 1..Len(fi.tree) :
               (NodeAt(fi, b).kind \in StmtKinds \cup {"comprehension"}
                    /\ Under(fi, n, b)) => Under(fi, a, b)

====
